---- MODULE Spec2Model ----
(***************************************************************************)
(* The revenar-lang lexer (src/shared/lexer/lexer.c) as a state machine.   *)
(* The source buffer is a sequence of bytes (ASCII codes) ending with the  *)
(* NUL terminator; start and current are 0-based offsets into it, as the   *)
(* C pointers are offsets from the buffer's first byte.                    *)
(***************************************************************************)
EXTENDS Integers, Sequences, FiniteSets, TLC

VARIABLES
    source,     \* the memory from the first byte of the buffer handed to initScanner on
    scanner,    \* the global Scanner: [start, current, line]
    pc,         \* where main is: "runFile", "loop", "free", "done" or "failed"
    trace,      \* one record per scanToken call so far: the scanner before and after,
                \* the token returned, and where the call's skipper stopped
    build,      \* which lexer.c was compiled: "shared" or "interpreter"
    sessions,   \* the lexing sessions of a client that lexes several buffers: for
                \* each its buffer and the calls of scanToken made for it
    last,       \* the last call of a cursor primitive: its name, argument, return
                \* value and the scanner before it
    freed       \* whether free() was called on the buffer readFile allocated

vars == <<source, scanner, pc, trace, build, sessions, last, freed>>

\* The execution character set: the code of each character literal of the source.
Ord ==
    "\t" :> 9 @@ "\n" :> 10 @@ "\r" :> 13 @@ " " :> 32 @@ "!" :> 33 @@ "\"" :> 34 @@
    "#" :> 35 @@ "$" :> 36 @@ "%" :> 37 @@ "&" :> 38 @@ "'" :> 39 @@ "(" :> 40 @@
    ")" :> 41 @@ "*" :> 42 @@ "+" :> 43 @@ "," :> 44 @@ "-" :> 45 @@ "." :> 46 @@
    "/" :> 47 @@ "0" :> 48 @@ "1" :> 49 @@ "2" :> 50 @@ "3" :> 51 @@ "4" :> 52 @@
    "5" :> 53 @@ "6" :> 54 @@ "7" :> 55 @@ "8" :> 56 @@ "9" :> 57 @@ ":" :> 58 @@
    ";" :> 59 @@ "<" :> 60 @@ "=" :> 61 @@ ">" :> 62 @@ "?" :> 63 @@ "@" :> 64 @@
    "A" :> 65 @@ "B" :> 66 @@ "C" :> 67 @@ "D" :> 68 @@ "E" :> 69 @@ "F" :> 70 @@
    "G" :> 71 @@ "H" :> 72 @@ "I" :> 73 @@ "J" :> 74 @@ "K" :> 75 @@ "L" :> 76 @@
    "M" :> 77 @@ "N" :> 78 @@ "O" :> 79 @@ "P" :> 80 @@ "Q" :> 81 @@ "R" :> 82 @@
    "S" :> 83 @@ "T" :> 84 @@ "U" :> 85 @@ "V" :> 86 @@ "W" :> 87 @@ "X" :> 88 @@
    "Y" :> 89 @@ "Z" :> 90 @@ "[" :> 91 @@ "\\" :> 92 @@ "]" :> 93 @@ "^" :> 94 @@
    "_" :> 95 @@ "a" :> 97 @@ "b" :> 98 @@ "c" :> 99 @@ "d" :> 100 @@
    "e" :> 101 @@ "f" :> 102 @@ "g" :> 103 @@ "h" :> 104 @@ "i" :> 105 @@ "j" :> 106 @@
    "k" :> 107 @@ "l" :> 108 @@ "m" :> 109 @@ "n" :> 110 @@ "o" :> 111 @@ "p" :> 112 @@
    "q" :> 113 @@ "r" :> 114 @@ "s" :> 115 @@ "t" :> 116 @@ "u" :> 117 @@ "v" :> 118 @@
    "w" :> 119 @@ "x" :> 120 @@ "y" :> 121 @@ "z" :> 122 @@ "{" :> 123 @@ "|" :> 124 @@
    "}" :> 125 @@ "~" :> 126

\* The NUL byte: the terminator readFile writes after the file's bytes.
NUL == 0

\* The bytes of a string literal of the source, given as the tuple of its
\* characters, without its terminator.
Bytes(text) == [i \in 1..Len(text) |-> Ord[text[i]]]

\* strlen(source): the offset of the terminator, the first NUL byte.  source
\* is the memory from the buffer's first byte on; what lies after the
\* terminator, if anything, is not part of the buffer.
Length ==
    CHOOSE n \in 0..(Len(source) - 1) :
        source[n + 1] = NUL /\ \A m \in 1..n : source[m] # NUL

\* *(source + off)
ByteAt(off) == source[off + 1]

(***************************************************************************)
(* The cursor primitives.  Each takes the scanner value s it works on and  *)
(* gives the scanner value it leaves (and, where the C function returns    *)
(* something, the returned value).                                         *)
(***************************************************************************)

initScanner ==
    [start |-> 0, current |-> 0, line |-> 1]

\* initScanner(source) for a buffer that starts at the offset buffer.
initScannerAt(buffer) ==
    [start |-> buffer, current |-> buffer, line |-> 1]

isAtEnd(s) ==
    ByteAt(s.current) = NUL

\* The scanner advance() leaves.
advance(s) ==
    IF isAtEnd(s) THEN s ELSE [s EXCEPT !.current = @ + 1]

\* The byte advance() returns.
advanceByte(s) ==
    IF isAtEnd(s) THEN NUL ELSE ByteAt(s.current)

peek(s) ==
    ByteAt(s.current)

\* peekNext of the interpreter's lexer.c: it tests the byte after the current
\* one before returning it, whatever the current byte is.
peekNextInterpreter(s) ==
    IF ByteAt(s.current) = NUL /\ ByteAt(s.current + 1) = NUL
        THEN NUL
        ELSE ByteAt(s.current + 1)

\* peekNext of the build.
peekNext(s) ==
    IF build = "interpreter" THEN peekNextInterpreter(s)
    ELSE IF isAtEnd(s) THEN NUL ELSE ByteAt(s.current + 1)

\* The offsets peekNext dereferences.  The shared lexer.c reads *current in
\* isAtEnd() and current[1] only when not at the end; the interpreter's reads
\* *current and then current[1], in its condition or in its return.
peekNextReads(s) ==
    IF build = "interpreter"
        THEN {s.current, s.current + 1}
        ELSE {s.current} \cup (IF isAtEnd(s) THEN {} ELSE {s.current + 1})

\* match testing the byte and returning true without scanner.current++.
match_noConsume(s, expected) ==
    IF isAtEnd(s) THEN [ok |-> FALSE, s |-> s]
    ELSE IF ByteAt(s.current) # expected THEN [ok |-> FALSE, s |-> s]
    ELSE [ok |-> TRUE, s |-> s]

\* match without the isAtEnd() test.
match_noEndTest(s, expected) ==
    IF ByteAt(s.current) # expected THEN [ok |-> FALSE, s |-> s]
    ELSE [ok |-> TRUE, s |-> [s EXCEPT !.current = @ + 1]]

\* match with scanner.current++ before the comparison: the byte is consumed
\* whether it is the expected one or not.
match_consumeFirst(s, expected) ==
    IF isAtEnd(s) THEN [ok |-> FALSE, s |-> s]
    ELSE [ok |-> ByteAt(s.current) = expected, s |-> [s EXCEPT !.current = @ + 1]]

\* match(expected): [ok |-> the returned bool, s |-> the scanner it leaves].
match(s, expected) ==
    IF isAtEnd(s) THEN [ok |-> FALSE, s |-> s]
    ELSE IF ByteAt(s.current) # expected THEN [ok |-> FALSE, s |-> s]
    ELSE [ok |-> TRUE, s |-> [s EXCEPT !.current = @ + 1]]

isDigit(c) ==
    c >= Ord["0"] /\ c <= Ord["9"]

isAlpha(c) ==
    \/ (c >= Ord["a"] /\ c <= Ord["z"])
    \/ (c >= Ord["A"] /\ c <= Ord["Z"])
    \/ c = Ord["_"]

\* The inner loop of a comment: advance while not at end and not at '\n'.
RECURSIVE skipComment(_)
skipComment(s) ==
    IF ~isAtEnd(s) /\ peek(s) # Ord["\n"] THEN skipComment(advance(s)) ELSE s

RECURSIVE skipWhitespace(_)

\* skipWhitespace taking every '/' for the start of a comment, without
\* peekNext().
skipWhitespace_anySlash(s) ==
    LET current_char == peek(s) IN
    IF current_char \in {Ord[" "], Ord["\t"], Ord["\r"]}
        THEN skipWhitespace(advance(s))
    ELSE IF current_char = Ord["\n"]
        THEN skipWhitespace(advance([s EXCEPT !.line = @ + 1]))
    ELSE IF current_char = Ord["/"]
        THEN skipWhitespace(skipComment(advance(advance(s))))
    ELSE s

skipWhitespace(s) ==
    LET current_char == peek(s) IN
    IF current_char \in {Ord[" "], Ord["\t"], Ord["\r"]}
        THEN skipWhitespace(advance(s))
    ELSE IF current_char = Ord["\n"]
        THEN skipWhitespace(advance([s EXCEPT !.line = @ + 1]))
    ELSE IF current_char = Ord["/"]
        THEN IF peekNext(s) = Ord["/"]
                THEN skipWhitespace(skipComment(advance(advance(s))))
                ELSE s
    ELSE s

(***************************************************************************)
(* Tokens.  base names the object the token's start pointer points into:   *)
(* "source" for a lexeme, the message itself for an error token.           *)
(***************************************************************************)

\* createToken with the length counted to the current byte inclusive.
createToken_inclusive(s, token_type) ==
    [token |-> token_type, base |-> "source", start |-> s.start,
     length |-> s.current - s.start + 1, line |-> s.line]

createToken(s, token_type) ==
    [token |-> token_type, base |-> "source", start |-> s.start,
     length |-> s.current - s.start, line |-> s.line]

\* errorToken reporting the line after the scanner's.
errorToken_nextLine(s, message) ==
    [token |-> "TOKEN_ERROR", base |-> message, start |-> 0,
     length |-> Len(message), line |-> s.line + 1]

\* errorToken describing the bytes scanned so far, as createToken does.
errorToken_sourceSpan(s, message) ==
    [token |-> "TOKEN_ERROR", base |-> "source", start |-> s.start,
     length |-> s.current - s.start, line |-> s.line]

errorToken(s, message) ==
    [token |-> "TOKEN_ERROR", base |-> message, start |-> 0,
     length |-> Len(message), line |-> s.line]

\* What a scanning function hands back: the scanner it leaves and its token.
Result(s, tok) == [s |-> s, tok |-> tok]

\* The escape characters both literal scanners accept after a backslash.
EscapeSet ==
    {Ord["'"], Ord["\""], Ord["\\"], Ord["n"], Ord["{"], Ord["}"], Ord["t"], Ord["r"], Ord["0"]}

(***************************************************************************)
(* The literal scanners.                                                   *)
(***************************************************************************)

\* Step 4 of isCharLiteral and its return: the closing quote.
closeCharLiteral(s) ==
    IF peek(s) # Ord["'"]
        THEN Result(s, errorToken(s, "Character literal must contain exactly one character."))
        ELSE LET s1 == advance(s) IN Result(s1, createToken(s1, "TOKEN_CHAR_LITERAL"))

\* isCharLiteral without step 1, the test for the empty literal.
isCharLiteral_noEmptyTest(s) ==
    IF peek(s) = Ord["\\"]
        THEN LET s1 == advance(s)
                 escaped == peek(s1)
             IN  IF escaped \in EscapeSet
                     THEN closeCharLiteral(advance(s1))
                     ELSE Result(s1, errorToken(s1, "Invalid escape sequence in character literal."))
    ELSE closeCharLiteral(advance(s))

isCharLiteral(s) ==
    IF peek(s) = Ord["'"]
        THEN Result(s, errorToken(s, "Empty character literal."))
    ELSE IF peek(s) = Ord["\\"]
        THEN LET s1 == advance(s)
                 escaped == peek(s1)
             IN  IF escaped \in EscapeSet
                     THEN closeCharLiteral(advance(s1))
                     ELSE Result(s1, errorToken(s1, "Invalid escape sequence in character literal."))
    ELSE closeCharLiteral(advance(s))

RECURSIVE isStringLiteral(_)

\* isStringLiteral of the interpreter's lexer.c: after a backslash it switches
\* on the next byte without testing for the end of the input.
isStringLiteralInterpreter(s) ==
    IF peek(s) # Ord["\""] /\ ~isAtEnd(s)
        THEN LET s1 == IF peek(s) = Ord["\n"] THEN [s EXCEPT !.line = @ + 1] ELSE s
             IN  IF peek(s1) = Ord["\\"]
                     THEN LET s2 == advance(s1)
                              escaped == peek(s2)
                          IN  IF escaped \in EscapeSet
                                  THEN isStringLiteral(advance(s2))
                                  ELSE Result(s2, errorToken(s2, "Invalid escape sequence."))
                     ELSE isStringLiteral(advance(s1))
    ELSE IF isAtEnd(s)
        THEN Result(s, errorToken(s, "Unterminated string"))
    ELSE LET s1 == advance(s) IN Result(s1, createToken(s1, "TOKEN_STRING_LITERAL"))

\* isStringLiteral consuming a line break without scanner.line++.
isStringLiteral_noLineCount(s) ==
    IF peek(s) # Ord["\""] /\ ~isAtEnd(s)
        THEN IF peek(s) = Ord["\\"]
                 THEN LET s2 == advance(s)
                      IN  IF isAtEnd(s2)
                              THEN Result(s2, errorToken(s2, "Unterminated string after escape."))
                          ELSE IF peek(s2) \in EscapeSet
                              THEN isStringLiteral(advance(s2))
                          ELSE Result(s2, errorToken(s2, "Invalid escape sequence."))
                 ELSE isStringLiteral(advance(s))
    ELSE IF isAtEnd(s)
        THEN Result(s, errorToken(s, "Unterminated string"))
    ELSE LET s1 == advance(s) IN Result(s1, createToken(s1, "TOKEN_STRING_LITERAL"))

\* isStringLiteral of the build.
isStringLiteral(s) ==
    IF build = "interpreter" THEN isStringLiteralInterpreter(s)
    ELSE IF peek(s) # Ord["\""] /\ ~isAtEnd(s)
        THEN LET s1 == IF peek(s) = Ord["\n"] THEN [s EXCEPT !.line = @ + 1] ELSE s
             IN  IF peek(s1) = Ord["\\"]
                     THEN LET s2 == advance(s1)
                          IN  IF isAtEnd(s2)
                                  THEN Result(s2, errorToken(s2, "Unterminated string after escape."))
                              ELSE IF peek(s2) \in EscapeSet
                                  THEN isStringLiteral(advance(s2))
                              ELSE Result(s2, errorToken(s2, "Invalid escape sequence."))
                     ELSE isStringLiteral(advance(s1))
    ELSE IF isAtEnd(s)
        THEN Result(s, errorToken(s, "Unterminated string"))
    ELSE LET s1 == advance(s) IN Result(s1, createToken(s1, "TOKEN_STRING_LITERAL"))

\* while (isDigit(peek())) advance();
RECURSIVE skipDigits(_)
skipDigits(s) ==
    IF isDigit(peek(s)) THEN skipDigits(advance(s)) ELSE s

\* isNumberLiteral taking a '.' after the digits as the fractional part without
\* looking at the byte after it.
isNumberLiteral_eagerDot(s) ==
    LET s1 == skipDigits(s)
    IN  IF peek(s1) = Ord["."]
            THEN LET s2 == skipDigits(advance(s1))
                 IN  Result(s2, createToken(s2, "TOKEN_FLOAT_LITERAL"))
            ELSE Result(s1, createToken(s1, "TOKEN_INT_LITERAL"))

isNumberLiteral(s) ==
    LET s1 == skipDigits(s)
    IN  IF peek(s1) = Ord["."] /\ isDigit(peekNext(s1))
            THEN LET s2 == skipDigits(advance(s1))
                 IN  Result(s2, createToken(s2, "TOKEN_FLOAT_LITERAL"))
            ELSE Result(s1, createToken(s1, "TOKEN_INT_LITERAL"))

(***************************************************************************)
(* The keyword resolver.                                                   *)
(***************************************************************************)

\* memcmp(scanner.start + start, rest, length) == 0
memcmpRest(s, start, length, rest) ==
    \A i \in 0..(length - 1) : ByteAt(s.start + start + i) = Bytes(rest)[i + 1]

\* checkKeyword comparing the bytes of rest only, not the length of the lexeme.
checkKeyword_prefix(s, start, length, rest, type) ==
    IF s.current - s.start >= start + length /\ memcmpRest(s, start, length, rest)
        THEN type
        ELSE "TOKEN_IDENTIFIER"

\* checkKeyword comparing with strcmp, which also wants the terminator right
\* after the lexeme.
checkKeyword_strcmp(s, start, length, rest, type) ==
    IF /\ s.current - s.start = start + length
       /\ memcmpRest(s, start, length, rest)
       /\ ByteAt(s.current) = NUL
        THEN type
        ELSE "TOKEN_IDENTIFIER"

checkKeyword(s, start, length, rest, type) ==
    IF s.current - s.start = start + length /\ memcmpRest(s, start, length, rest)
        THEN type
        ELSE "TOKEN_IDENTIFIER"

\* case 'c': of identifierType
identifierTypeC(s) ==
    IF s.current - s.start > 1
        THEN CASE ByteAt(s.start + 1) = Ord["h"] -> checkKeyword(s, 2, 2, <<"a", "r">>, "TOKEN_CHAR")
               [] ByteAt(s.start + 1) = Ord["o"] ->
                    IF s.current - s.start > 2 /\ ByteAt(s.start + 2) = Ord["n"]
                        THEN IF s.current - s.start > 3
                                THEN CASE ByteAt(s.start + 3) = Ord["s"] ->
                                              checkKeyword(s, 4, 1, <<"t">>, "TOKEN_CONST")
                                       [] ByteAt(s.start + 3) = Ord["t"] ->
                                              checkKeyword(s, 4, 4, <<"i", "n", "u", "e">>, "TOKEN_CONTINUE")
                                       [] OTHER -> "TOKEN_IDENTIFIER"
                                ELSE "TOKEN_IDENTIFIER"
                        ELSE "TOKEN_IDENTIFIER"
               [] OTHER -> "TOKEN_IDENTIFIER"
        ELSE "TOKEN_IDENTIFIER"

identifierType(s) ==
    LET c0 == ByteAt(s.start)
        long == s.current - s.start > 1
        c1 == ByteAt(s.start + 1)
    IN
    CASE c0 = Ord["b"] ->
            IF (IF build = "interpreter" THEN s.current > s.start - 1 ELSE long)
                THEN CASE c1 = Ord["o"] -> checkKeyword(s, 2, 2, <<"o", "l">>, "TOKEN_BOOL")
                       [] c1 = Ord["r"] -> checkKeyword(s, 2, 3, <<"e", "a", "k">>, "TOKEN_BREAK")
                       [] OTHER -> "TOKEN_IDENTIFIER"
                ELSE "TOKEN_IDENTIFIER"
      [] c0 = Ord["c"] -> identifierTypeC(s)
      [] c0 = Ord["d"] -> checkKeyword(s, 1, 1, <<"o">>, "TOKEN_DO")
      [] c0 = Ord["e"] -> checkKeyword(s, 1, 3, <<"l", "s", "e">>, "TOKEN_ELSE")
      [] c0 = Ord["f"] ->
            IF long
                THEN CASE c1 = Ord["a"] -> checkKeyword(s, 2, 3, <<"l", "s", "e">>, "TOKEN_FALSE")
                       [] c1 = Ord["n"] -> checkKeyword(s, 2, 0, <<>>, "TOKEN_FN")
                       [] c1 = Ord["o"] -> checkKeyword(s, 2, 1, <<"r">>, "TOKEN_FOR")
                       [] c1 = Ord["3"] -> checkKeyword(s, 2, 1, <<"2">>, "TOKEN_F32")
                       [] c1 = Ord["6"] -> checkKeyword(s, 2, 1, <<"4">>, "TOKEN_F64")
                       [] OTHER -> "TOKEN_IDENTIFIER"
                ELSE "TOKEN_IDENTIFIER"
      [] c0 = Ord["i"] ->
            IF long
                THEN CASE c1 = Ord["f"] -> checkKeyword(s, 2, 0, <<>>, "TOKEN_IF")
                       [] c1 = Ord["n"] -> checkKeyword(s, 2, 0, <<>>, "TOKEN_IN")
                       [] c1 = Ord["8"] -> checkKeyword(s, 2, 0, <<>>, "TOKEN_I8")
                       [] c1 = Ord["1"] -> checkKeyword(s, 2, 1, <<"6">>, "TOKEN_I16")
                       [] c1 = Ord["3"] -> checkKeyword(s, 2, 1, <<"2">>, "TOKEN_I32")
                       [] c1 = Ord["6"] -> checkKeyword(s, 2, 1, <<"4">>, "TOKEN_I64")
                       [] OTHER -> "TOKEN_IDENTIFIER"
                ELSE "TOKEN_IDENTIFIER"
      [] c0 = Ord["l"] -> checkKeyword(s, 1, 3, <<"o", "o", "p">>, "TOKEN_LOOP")
      [] c0 = Ord["m"] ->
            IF long
                THEN CASE c1 = Ord["a"] -> checkKeyword(s, 2, 3, <<"t", "c", "h">>, "TOKEN_MATCH")
                       [] c1 = Ord["u"] -> checkKeyword(s, 2, 1, <<"t">>, "TOKEN_MUT")
                       [] OTHER -> "TOKEN_IDENTIFIER"
                ELSE "TOKEN_IDENTIFIER"
      [] c0 = Ord["n"] -> checkKeyword(s, 1, 3, <<"u", "l", "l">>, "TOKEN_NULL")
      [] c0 = Ord["r"] -> checkKeyword(s, 1, 5, <<"e", "t", "u", "r", "n">>, "TOKEN_RETURN")
      [] c0 = Ord["s"] -> checkKeyword(s, 1, 5, <<"t", "r", "i", "n", "g">>, "TOKEN_STRING")
      [] c0 = Ord["t"] -> checkKeyword(s, 1, 3, <<"r", "u", "e">>, "TOKEN_TRUE")
      [] c0 = Ord["u"] ->
            IF long
                THEN CASE c1 = Ord["8"] -> checkKeyword(s, 2, 0, <<>>, "TOKEN_U8")
                       [] c1 = Ord["1"] -> checkKeyword(s, 2, 1, <<"6">>, "TOKEN_U16")
                       [] c1 = Ord["3"] -> checkKeyword(s, 2, 1, <<"2">>, "TOKEN_U32")
                       [] c1 = Ord["6"] -> checkKeyword(s, 2, 1, <<"4">>, "TOKEN_U64")
                       [] OTHER -> "TOKEN_IDENTIFIER"
                ELSE "TOKEN_IDENTIFIER"
      [] c0 = Ord["v"] -> checkKeyword(s, 1, 3, <<"o", "i", "d">>, "TOKEN_VOID")
      [] c0 = Ord["w"] -> checkKeyword(s, 1, 4, <<"h", "i", "l", "e">>, "TOKEN_WHILE")
      [] OTHER -> "TOKEN_IDENTIFIER"

\* while (isAlpha(peek()) || isDigit(peek())) advance();
RECURSIVE skipAlnum(_)
skipAlnum(s) ==
    IF isAlpha(peek(s)) \/ isDigit(peek(s)) THEN skipAlnum(advance(s)) ELSE s

\* isIdentifier whose loop stops at a digit: while (isAlpha(peek())) advance();
isIdentifier_lettersOnly(s) ==
    LET RECURSIVE skipAlpha(_)
        skipAlpha(x) == IF isAlpha(peek(x)) THEN skipAlpha(advance(x)) ELSE x
        s1 == skipAlpha(s)
    IN  Result(s1, createToken(s1, identifierType(s1)))

isIdentifier(s) ==
    LET s1 == skipAlnum(s) IN Result(s1, createToken(s1, identifierType(s1)))

(***************************************************************************)
(* The dispatcher.                                                         *)
(***************************************************************************)

\* The cases of scanToken's switch that return a one-character token at once.
SingleCharToken ==
    Ord["("] :> "TOKEN_LEFT_PAREN" @@ Ord[")"] :> "TOKEN_RIGHT_PAREN" @@
    Ord["{"] :> "TOKEN_LEFT_BRACE" @@ Ord["}"] :> "TOKEN_RIGHT_BRACE" @@
    Ord["["] :> "TOKEN_LEFT_BRACKET" @@ Ord["]"] :> "TOKEN_RIGHT_BRACKET" @@
    Ord[","] :> "TOKEN_COMMA" @@ Ord[":"] :> "TOKEN_COLON" @@
    Ord[";"] :> "TOKEN_SEMICOLON" @@ Ord["?"] :> "TOKEN_QUESTION" @@
    Ord["^"] :> "TOKEN_BIT_XOR" @@ Ord["~"] :> "TOKEN_BIT_NOT"

\* The cases of the build: the interpreter's lexer.c has no case '?'.
SingleCharTokens ==
    IF build = "interpreter"
        THEN [c \in DOMAIN SingleCharToken \ {Ord["?"]} |-> SingleCharToken[c]]
        ELSE SingleCharToken

\* createToken(match(expected) ? two : one)
matchToken(s, expected, two, one) ==
    LET m == match(s, Ord[expected])
    IN  Result(m.s, createToken(m.s, IF m.ok THEN two ELSE one))

\* createToken(match(e1) ? t1 : (match(e2) ? t2 : one))
matchToken2(s, e1, t1, e2, t2, one) ==
    LET m1 == match(s, Ord[e1])
    IN  IF m1.ok THEN Result(m1.s, createToken(m1.s, t1))
                 ELSE matchToken(m1.s, e2, t2, one)

\* The switch of scanToken on the byte c that advance() returned, s being the
\* scanner advance() left.
dispatch(s, c) ==
    CASE c \in DOMAIN SingleCharTokens -> Result(s, createToken(s, SingleCharTokens[c]))
      [] c = Ord["."] -> matchToken(s, ".", "TOKEN_DOT_DOT", "TOKEN_DOT")
      [] c = Ord["+"] -> matchToken(s, "=", "TOKEN_PLUS_EQUAL", "TOKEN_PLUS")
      [] c = Ord["*"] -> matchToken(s, "=", "TOKEN_STAR_EQUAL", "TOKEN_STAR")
      [] c = Ord["/"] -> matchToken(s, "=", "TOKEN_SLASH_EQUAL", "TOKEN_SLASH")
      [] c = Ord["%"] -> matchToken(s, "=", "TOKEN_PERCENT_EQUAL", "TOKEN_PERCENT")
      [] c = Ord["-"] -> matchToken2(s, ">", "TOKEN_ARROW", "=", "TOKEN_MINUS_EQUAL", "TOKEN_MINUS")
      [] c = Ord["="] -> matchToken(s, "=", "TOKEN_EQUAL_EQUAL", "TOKEN_EQUAL")
      [] c = Ord["!"] -> matchToken(s, "=", "TOKEN_BANG_EQUAL", "TOKEN_BANG")
      [] c = Ord["<"] -> matchToken2(s, "<", "TOKEN_LEFT_SHIFT", "=", "TOKEN_LESS_EQUAL", "TOKEN_LESS")
      [] c = Ord[">"] -> matchToken2(s, ">", "TOKEN_RIGHT_SHIFT", "=", "TOKEN_GREATER_EQUAL", "TOKEN_GREATER")
      [] c = Ord["&"] -> matchToken(s, "&", "TOKEN_AND", "TOKEN_BIT_AND")
      [] c = Ord["|"] -> matchToken(s, "|", "TOKEN_OR", "TOKEN_BIT_OR")
      [] c = Ord["'"] -> isCharLiteral(s)
      [] c = Ord["\""] -> isStringLiteral(s)
      [] OTHER -> IF isDigit(c) THEN isNumberLiteral(s)
                  ELSE IF isAlpha(c) THEN isIdentifier(s)
                  ELSE Result(s, errorToken(s, "Unexpected character."))

\* scanner.start = scanner.current;
markStart(s) ==
    [s EXCEPT !.start = s.current]

\* scanToken dispatching on peek() in place of advance(): the first byte of the
\* token is looked at and left unconsumed.
scanToken_peek(s) ==
    LET s1 == markStart(skipWhitespace(s))
    IN  IF isAtEnd(s1)
            THEN Result(s1, createToken(s1, "TOKEN_EOF"))
            ELSE dispatch(s1, peek(s1))

\* scanToken counting the end of input as the end of a line.
scanToken_eofNewline(s) ==
    LET s1 == markStart(skipWhitespace(s))
    IN  IF isAtEnd(s1)
            THEN Result([s1 EXCEPT !.line = @ + 1], createToken(s1, "TOKEN_EOF"))
            ELSE dispatch(advance(s1), advanceByte(s1))

\* scanToken marking the token start before the skipper has run.
scanToken_markFirst(s) ==
    LET s1 == skipWhitespace(markStart(s))
    IN  IF isAtEnd(s1)
            THEN Result(s1, createToken(s1, "TOKEN_EOF"))
            ELSE dispatch(advance(s1), advanceByte(s1))

scanToken(s) ==
    LET s1 == markStart(skipWhitespace(s))
    IN  IF isAtEnd(s1)
            THEN Result(s1, createToken(s1, "TOKEN_EOF"))
            ELSE dispatch(advance(s1), advanceByte(s1))

(***************************************************************************)
(* The inputs.                                                             *)
(***************************************************************************)

\* Longest file, in bytes, of the general specification.
MaxLen == 4

\* Calls of scanToken made after the one that first returned TOKEN_EOF.
MaxEofCalls == 2

\* All byte strings over alphabet of at most n bytes.
Texts(alphabet, n) ==
    UNION {[1..k -> alphabet] : k \in 0..n}

\* The buffer readFile returns for a file holding text.
readFile(text) ==
    Append(text, NUL)

\* One byte of each kind the dispatcher, the skipper and the literal scanners
\* tell apart.
Alphabet ==
    {Ord[c] : c \in {" ", "\n", "/", "'", "\"", "\\", "a", "1", "@"}}

Files == Texts(Alphabet, MaxLen)

(***************************************************************************)
(* The state machine.                                                      *)
(***************************************************************************)

\* No cursor primitive has been called yet.
NoCall == [op |-> "none"]

\* The state main is in when runFile has returned the buffer of a file.
InitFor(variant, files) ==
    /\ source \in {readFile(text) : text \in files}
    /\ scanner = initScanner
    /\ pc = "loop"
    /\ trace = <<>>
    /\ build = variant
    /\ sessions = <<>>
    /\ last = NoCall
    /\ freed = FALSE

InitOn(files) == InitFor("shared", files)

Init == InitOn(Files)

\* The calls so far that returned TOKEN_EOF.
EofCount == Cardinality({i \in 1..Len(trace) : trace[i].tok.token = "TOKEN_EOF"})

\* What one call of scanToken does to the state.
ScanTokenEffect(r) ==
    /\ scanner' = r.s
    /\ trace' = Append(trace, [before |-> scanner, after |-> r.s, tok |-> r.tok,
                                skipEnd |-> skipWhitespace(scanner).current])
    /\ UNCHANGED <<source, build, sessions, last, freed>>

\* A caller asks for the next token.
ScanTokenCall ==
    /\ pc = "loop"
    /\ EofCount <= MaxEofCalls
    /\ ScanTokenEffect(scanToken(scanner))
    /\ UNCHANGED pc

Next == ScanTokenCall

Spec == Init /\ [][Next]_vars

(***************************************************************************)
(* main: runFile reads the file and initialises the scanner, the driver    *)
(* loop asks for tokens until TOKEN_EOF, then main frees the buffer and    *)
(* returns.  main is a sequential program that keeps running, hence the    *)
(* weak fairness of its steps.                                             *)
(***************************************************************************)

\* main is entered: no buffer yet, the global scanner zero-initialised.
MainInit ==
    /\ source = <<>>
    /\ scanner = [start |-> 0, current |-> 0, line |-> 0]
    /\ pc = "runFile"
    /\ trace = <<>>
    /\ build = "shared"
    /\ sessions = <<>>
    /\ last = NoCall
    /\ freed = FALSE

\* runFile(argv[1]) returns the buffer of the file, the scanner initialised on it.
RunFile ==
    /\ pc = "runFile"
    /\ \E text \in Files : source' = readFile(text)
    /\ scanner' = initScanner
    /\ pc' = "loop"
    /\ UNCHANGED <<trace, build, sessions, last, freed>>

\* readFile fails, runFile returns NULL and main returns 74.
RunFileFails ==
    /\ pc = "runFile"
    /\ pc' = "failed"
    /\ UNCHANGED <<source, scanner, trace, build, sessions, last, freed>>

\* One turn of for (;;): scanToken, print, break on TOKEN_EOF.
MainLoop ==
    /\ pc = "loop"
    /\ LET r == scanToken(scanner)
       IN  /\ ScanTokenEffect(r)
           /\ pc' = IF r.tok.token = "TOKEN_EOF" THEN "free" ELSE "loop"

\* free(source); return 0;
MainFree ==
    /\ pc = "free"
    /\ pc' = "done"
    /\ freed' = TRUE
    /\ UNCHANGED <<source, scanner, trace, build, sessions, last>>

MainNext == RunFile \/ RunFileFails \/ MainLoop \/ MainFree

MainSpec == MainInit /\ [][MainNext]_vars /\ WF_vars(MainNext)

(***************************************************************************)
(* The exported functions of lexer.h called in any order by a client.      *)
(***************************************************************************)

\* Longest file of the specification of the exported functions.
MaxApiLen == 3

ApiInit == InitOn(Texts(Alphabet, MaxApiLen))

\* initScanner(source) again, on the buffer the client holds.
InitScannerCall ==
    /\ scanner' = initScanner
    /\ trace' = <<>>
    /\ UNCHANGED <<source, pc, build, sessions, last, freed>>

AdvanceCall ==
    /\ scanner' = advance(scanner)
    /\ UNCHANGED <<source, pc, trace, build, sessions, last, freed>>

MatchCall ==
    \E expected \in Alphabet \cup {NUL} :
        /\ scanner' = match(scanner, expected).s
        /\ UNCHANGED <<source, pc, trace, build, sessions, last, freed>>

SkipWhitespaceCall ==
    /\ scanner' = skipWhitespace(scanner)
    /\ UNCHANGED <<source, pc, trace, build, sessions, last, freed>>

ApiNext ==
    \/ InitScannerCall
    \/ AdvanceCall
    \/ MatchCall
    \/ SkipWhitespaceCall
    \/ ScanTokenCall

ApiSpec == ApiInit /\ [][ApiNext]_vars


(***************************************************************************)
(* Files of operator bytes, and files holding one identifier-shaped        *)
(* lexeme, for the dispatcher's and the keyword resolver's properties.     *)
(***************************************************************************)

\* Longest file of operator bytes.
MaxOpLen == 3

OpAlphabet ==
    {Ord[c] : c \in {".", "+", "*", "/", "%", "-", "=", "!", "<", ">", "&", "|", " "}}

OpInit == InitOn(Texts(OpAlphabet, MaxOpLen))

OpSpec == OpInit /\ [][Next]_vars

\* The reserved words and the kind of each.
KeywordTable ==
    { <<<<"b","o","o","l">>, "TOKEN_BOOL">>, <<<<"b","r","e","a","k">>, "TOKEN_BREAK">>,
      <<<<"c","h","a","r">>, "TOKEN_CHAR">>, <<<<"c","o","n","s","t">>, "TOKEN_CONST">>,
      <<<<"c","o","n","t","i","n","u","e">>, "TOKEN_CONTINUE">>, <<<<"d","o">>, "TOKEN_DO">>,
      <<<<"e","l","s","e">>, "TOKEN_ELSE">>, <<<<"f","a","l","s","e">>, "TOKEN_FALSE">>,
      <<<<"f","n">>, "TOKEN_FN">>, <<<<"f","o","r">>, "TOKEN_FOR">>,
      <<<<"f","3","2">>, "TOKEN_F32">>, <<<<"f","6","4">>, "TOKEN_F64">>,
      <<<<"i","f">>, "TOKEN_IF">>, <<<<"i","n">>, "TOKEN_IN">>, <<<<"i","8">>, "TOKEN_I8">>,
      <<<<"i","1","6">>, "TOKEN_I16">>, <<<<"i","3","2">>, "TOKEN_I32">>,
      <<<<"i","6","4">>, "TOKEN_I64">>, <<<<"l","o","o","p">>, "TOKEN_LOOP">>,
      <<<<"m","a","t","c","h">>, "TOKEN_MATCH">>, <<<<"m","u","t">>, "TOKEN_MUT">>,
      <<<<"n","u","l","l">>, "TOKEN_NULL">>, <<<<"r","e","t","u","r","n">>, "TOKEN_RETURN">>,
      <<<<"s","t","r","i","n","g">>, "TOKEN_STRING">>, <<<<"t","r","u","e">>, "TOKEN_TRUE">>,
      <<<<"u","8">>, "TOKEN_U8">>, <<<<"u","1","6">>, "TOKEN_U16">>,
      <<<<"u","3","2">>, "TOKEN_U32">>, <<<<"u","6","4">>, "TOKEN_U64">>,
      <<<<"v","o","i","d">>, "TOKEN_VOID">>, <<<<"w","h","i","l","e">>, "TOKEN_WHILE">> }

ReservedWords == {e[1] : e \in KeywordTable}

\* Every byte of a reserved word, and two bytes that are in none.
KwAlphabet ==
    UNION {{Ord[w[i]] : i \in 1..Len(w)} : w \in ReservedWords} \cup {Ord["x"], Ord["_"]}

\* Longest lexeme of which every spelling over KwAlphabet is tried.
MaxKwLen == 2

\* Lexemes around the reserved words: each word, each of its prefixes, each word
\* with one byte appended and each word with one byte replaced.
NearWords ==
    UNION { {SubSeq(Bytes(w), 1, k) : k \in 1..Len(w)}
            \cup {Append(Bytes(w), c) : c \in KwAlphabet}
            \cup {[Bytes(w) EXCEPT ![k] = c] : k \in 1..Len(w), c \in KwAlphabet}
          : w \in ReservedWords }

\* Lexemes that run on well past a reserved word.
LongerWords ==
    {Bytes(<<"f","o","r","e","s","t">>), Bytes(<<"i","3","2","x","_">>),
     Bytes(<<"d","o","n","e">>), Bytes(<<"c","o","n","s","t","a","n","t">>)}

\* An identifier-shaped lexeme starts with a letter or underscore.
Lexemes ==
    {l \in Texts(KwAlphabet, MaxKwLen) \cup NearWords \cup LongerWords :
        Len(l) > 0 /\ isAlpha(l[1])}

\* A file holding one lexeme, alone or between a blank and a semicolon.
KwFiles ==
    Lexemes \cup {<<Ord[" "]>> \o l \o <<Ord[";"]>> : l \in Lexemes}

KwInit == InitOn(KwFiles)

KwSpec == KwInit /\ [][Next]_vars

(***************************************************************************)
(* The properties.                                                         *)
(***************************************************************************)

\* The i-th call of scanToken returned a token of this kind.
Returned(i, kind) == trace[i].tok.token = kind

\* Every call that did not return TOKEN_EOF left current greater than it found it.
EveryCallAdvances ==
    \A i \in 1..Len(trace) :
        ~Returned(i, "TOKEN_EOF") => trace[i].after.current > trace[i].before.current

\* The variant of main's loop: strlen(source) + 1 minus the calls made is
\* positive while main is in the loop, the call that uses it up returned
\* TOKEN_EOF, and TOKEN_EOF takes main out of the loop.
LoopVariant ==
    pc \in {"loop", "free", "done"} =>
        /\ Len(trace) <= Length + 1
        /\ pc = "loop" => Len(trace) <= Length
        /\ Len(trace) = Length + 1 => Returned(Len(trace), "TOKEN_EOF")
        /\ (Len(trace) > 0 /\ Returned(Len(trace), "TOKEN_EOF")) => pc \in {"free", "done"}

\* C1: every scanToken call that does not return TOKEN_EOF, a call returning
\* TOKEN_ERROR included, leaves current strictly greater than before; main's
\* loop therefore gets TOKEN_EOF within strlen(source) + 1 calls and main
\* terminates, each turn of the loop using up one of strlen(source) + 1 calls.
C1_ProgressAndTermination ==
    EveryCallAdvances /\ LoopVariant

\* main returned after strlen(source) + 1 calls, one of which gave an error token.
C1_Witness ==
    /\ pc = "done"
    /\ Length >= 3
    /\ Len(trace) = Length + 1
    /\ \E i \in 1..Len(trace) : Returned(i, "TOKEN_ERROR")

\* C2: TOKEN_EOF is terminal and idempotent: every call made after a call that
\* returned TOKEN_EOF returns TOKEN_EOF again (never TOKEN_ERROR) and leaves
\* current and line as they were, current being at the terminator.
C2_EofIdempotent ==
    \A i, j \in 1..Len(trace) :
        (i < j /\ Returned(i, "TOKEN_EOF")) =>
            /\ Returned(j, "TOKEN_EOF")
            /\ trace[j].after.current = trace[j].before.current
            /\ trace[j].after.line = trace[j].before.line
            /\ trace[j].after.current = Length

\* Two further calls were made after TOKEN_EOF, on a file that held an error
\* and a line break.
C2_Witness ==
    /\ Len(trace) >= 4
    /\ Returned(1, "TOKEN_ERROR")
    /\ Returned(Len(trace) - 2, "TOKEN_EOF")
    /\ Returned(Len(trace), "TOKEN_EOF")
    /\ scanner.line > 1

\* The message of the error token the i-th call returned.
Message(i) == trace[i].tok.base

\* The offset of the byte after the first backslash, from off on, that no
\* escape character follows: the byte "Invalid escape sequence." is about.
RECURSIVE BadEscapeFrom(_)
BadEscapeFrom(off) ==
    IF off >= Length THEN Length
    ELSE IF ByteAt(off) = Ord["\\"]
        THEN IF ByteAt(off + 1) \in EscapeSet THEN BadEscapeFrom(off + 2) ELSE off + 1
    ELSE BadEscapeFrom(off + 1)

\* The offset of the byte the error of the i-th call is about, the token having
\* started at trace[i].after.start.
OffendingOffset(i) ==
    LET st == trace[i].after.start
    IN  CASE Message(i) = "Unexpected character." -> st
          [] Message(i) = "Empty character literal." -> st + 1
          [] Message(i) = "Invalid escape sequence in character literal." -> st + 2
          [] Message(i) = "Character literal must contain exactly one character." ->
                IF ByteAt(st + 1) = Ord["\\"] THEN st + 3 ELSE st + 2
          [] Message(i) = "Invalid escape sequence." -> BadEscapeFrom(st + 1)

\* C3: when scanToken returns an error token with one of the messages
\* "Unexpected character.", "Invalid escape sequence.", "Invalid escape sequence
\* in character literal.", "Empty character literal.", "Character literal must
\* contain exactly one character.", the byte that caused the error (a byte of the
\* file, not the terminator) lies strictly before current.
C3_ErrorPastOffendingByte ==
    \A i \in 1..Len(trace) :
        (/\ Returned(i, "TOKEN_ERROR")
         /\ Message(i) \notin {"Unterminated string", "Unterminated string after escape."}
         /\ OffendingOffset(i) < Length)
            => OffendingOffset(i) < trace[i].after.current

\* The files whose only malformed construct is one empty or one over-long
\* character literal, blanks around it.
Blank == {Ord[" "], Ord["\n"]}

EmptyCharFiles ==
    {pre \o <<Ord["'"], Ord["'"]>> \o post :
        pre \in Texts(Blank, 1), post \in Texts(Blank, 1)}

LongCharFiles ==
    {<<Ord["'"], c, d, Ord["'"]>> : c \in {Ord["a"], Ord["1"]}, d \in {Ord["a"], Ord["1"]}}

ErrorMessages ==
    {Message(i) : i \in {k \in 1..Len(trace) : Returned(k, "TOKEN_ERROR")}}

ErrorCount ==
    Cardinality({k \in 1..Len(trace) : Returned(k, "TOKEN_ERROR")})

\* C4: a file whose only malformed construct is one bad character literal gives,
\* up to TOKEN_EOF, exactly one TOKEN_ERROR: "Empty character literal." for '',
\* "Character literal must contain exactly one character." for 'ab'.
C4_OneErrorPerBadLiteral ==
    (Len(trace) > 0 /\ Returned(Len(trace), "TOKEN_EOF")) =>
        /\ source \in {readFile(f) : f \in EmptyCharFiles} =>
              (ErrorCount = 1 /\ ErrorMessages = {"Empty character literal."})
        /\ source \in {readFile(f) : f \in LongCharFiles} =>
              (ErrorCount = 1 /\ ErrorMessages =
                  {"Character literal must contain exactly one character."})

\* The two-character tokens.
TwoCharTable ==
    { <<"..", <<".", ".">>, "TOKEN_DOT_DOT">>, <<"+=", <<"+", "=">>, "TOKEN_PLUS_EQUAL">>,
      <<"*=", <<"*", "=">>, "TOKEN_STAR_EQUAL">>, <<"/=", <<"/", "=">>, "TOKEN_SLASH_EQUAL">>,
      <<"%=", <<"%", "=">>, "TOKEN_PERCENT_EQUAL">>, <<"->", <<"-", ">">>, "TOKEN_ARROW">>,
      <<"-=", <<"-", "=">>, "TOKEN_MINUS_EQUAL">>, <<"==", <<"=", "=">>, "TOKEN_EQUAL_EQUAL">>,
      <<"!=", <<"!", "=">>, "TOKEN_BANG_EQUAL">>, <<"<<", <<"<", "<">>, "TOKEN_LEFT_SHIFT">>,
      <<"<=", <<"<", "=">>, "TOKEN_LESS_EQUAL">>, <<">>", <<">", ">">>, "TOKEN_RIGHT_SHIFT">>,
      <<">=", <<">", "=">>, "TOKEN_GREATER_EQUAL">>, <<"&&", <<"&", "&">>, "TOKEN_AND">>,
      <<"||", <<"|", "|">>, "TOKEN_OR">> }

\* C5: maximal munch: whenever the two bytes at the token start (after the
\* skipper) spell one of the two-character tokens .. += *= /= %= -> -= == != <<
\* <= >> >= && ||, scanToken returns that token, of length 2, starting there,
\* never the one-character token of the first byte.
C5_MaximalMunch ==
    \A i \in 1..Len(trace) :
        LET st == trace[i].after.start
        IN  \A e \in TwoCharTable :
                (st < Length /\ <<ByteAt(st), ByteAt(st + 1)>> = Bytes(e[2])) =>
                    /\ trace[i].tok.token = e[3]
                    /\ trace[i].tok.base = "source"
                    /\ trace[i].tok.start = st
                    /\ trace[i].tok.length = 2

\* << followed by = was returned as a shift token and then an assignment token.
C5_Witness ==
    /\ Len(trace) = 2
    /\ source = readFile(Bytes(<<"<", "<", "=">>))
    /\ Returned(1, "TOKEN_LEFT_SHIFT")
    /\ Returned(2, "TOKEN_EQUAL")

\* The bytes of the i-th token's lexeme.
Lexeme(i) ==
    SubSeq(source, trace[i].tok.start + 1, trace[i].tok.start + trace[i].tok.length)

\* The i-th token is identifier-shaped: a lexeme that starts with a letter or underscore.
IdentifierShaped(i) ==
    /\ trace[i].tok.base = "source"
    /\ trace[i].tok.length > 0
    /\ isAlpha(ByteAt(trace[i].tok.start))

\* C6: keyword exactness: an identifier-shaped lexeme gets a keyword kind if and
\* only if it equals, byte for byte and in length, one of the reserved words, and
\* then the kind of that word; otherwise it gets TOKEN_IDENTIFIER.
C6_KeywordExactness ==
    \A i \in 1..Len(trace) :
        IdentifierShaped(i) =>
            /\ \A e \in KeywordTable :
                   Lexeme(i) = Bytes(e[1]) <=> trace[i].tok.token = e[2]
            /\ (\A e \in KeywordTable : Lexeme(i) # Bytes(e[1])) =>
                   trace[i].tok.token = "TOKEN_IDENTIFIER"

\* The lexeme continux, one byte off a reserved word, was returned as an identifier.
C6_Witness ==
    /\ Len(trace) = 1
    /\ source = readFile(Bytes(<<"c","o","n","t","i","n","u","x">>))
    /\ Returned(1, "TOKEN_IDENTIFIER")
    /\ trace[1].tok.length = 8

\* The buffer offsets the skipper consumed in the i-th call.
SkippedRegion(i) == trace[i].before.current .. (trace[i].skipEnd - 1)

\* The buffer offsets of the i-th token's span: none for an error token, whose
\* start and length describe the message.
TokenSpan(i) ==
    IF trace[i].tok.base = "source"
        THEN trace[i].tok.start .. (trace[i].tok.start + trace[i].tok.length - 1)
        ELSE {}

\* The buffer offsets the i-th call consumed after its skipper, when it returned
\* an error token.
ErrorRegion(i) ==
    IF trace[i].tok.base = "source"
        THEN {}
        ELSE trace[i].skipEnd .. (trace[i].after.current - 1)

\* The number of regions of the three kinds that hold the offset off.
RegionsHolding(off, withErrors) ==
    Cardinality({i \in 1..Len(trace) : off \in SkippedRegion(i)})
    + Cardinality({i \in 1..Len(trace) : off \in TokenSpan(i)})
    + (IF withErrors THEN Cardinality({i \in 1..Len(trace) : off \in ErrorRegion(i)}) ELSE 0)

\* The regions come in the order of the calls: each call's skipped region starts
\* where the call before stopped, its token starts where its skipped region ends
\* and ends where the call stops.
RegionsInOrder ==
    \A i \in 1..Len(trace) :
        /\ trace[i].before.current = (IF i = 1 THEN 0 ELSE trace[i - 1].after.current)
        /\ trace[i].before.current <= trace[i].skipEnd
        /\ trace[i].skipEnd <= trace[i].after.current
        /\ trace[i].tok.base = "source" =>
               /\ trace[i].tok.start = trace[i].skipEnd
               /\ trace[i].tok.start + trace[i].tok.length = trace[i].after.current

\* C7 as stated: the file scanned to TOKEN_EOF, every byte before the terminator
\* belongs to exactly one token span or one skipped region.
C7_Coverage ==
    pc = "done" =>
        /\ RegionsInOrder
        /\ \A off \in 0..(Length - 1) : RegionsHolding(off, FALSE) = 1

\* C7 amended: the file scanned to TOKEN_EOF, every byte before the terminator
\* belongs to exactly one span of a non-error token, one skipped region, or one
\* region consumed by a call that returned an error token, the regions in order.
C7_CoverageWithErrorRegions ==
    pc = "done" =>
        /\ RegionsInOrder
        /\ \A off \in 0..(Length - 1) : RegionsHolding(off, TRUE) = 1

\* A file was scanned to TOKEN_EOF with a skipped region, a token and an error.
C7_Witness ==
    /\ pc = "done"
    /\ \E i \in 1..Len(trace) : SkippedRegion(i) # {}
    /\ \E i \in 1..Len(trace) : TokenSpan(i) # {}
    /\ \E i \in 1..Len(trace) : ErrorRegion(i) # {}

\* The number of line breaks among the bytes before the offset off.
NewlinesBefore(off) ==
    Cardinality({k \in 0..(off - 1) : ByteAt(k) = Ord["\n"]})

\* C8: line never decreases and is incremented exactly once for each consumed
\* line break: after any sequence of scanToken calls line is 1 plus the number
\* of line breaks before current, whichever scanner consumed them.
C8_LineCountsNewlines ==
    /\ scanner.line = 1 + NewlinesBefore(scanner.current)
    /\ \A i \in 1..Len(trace) : trace[i].after.line >= trace[i].before.line

\* C9: the line of every non-error token is the line of the token's first
\* byte: 1 plus the number of line breaks before the token's start, string
\* literals over several lines included.
C9_TokenLineIsFirstByteLine ==
    \A i \in 1..Len(trace) :
        trace[i].tok.base = "source" =>
            trace[i].tok.line = 1 + NewlinesBefore(trace[i].tok.start)

\* C10: after any sequence of initScanner, advance, match, skipWhitespace and
\* scanToken calls, 0 <= start <= current <= strlen(source).
C10_CursorBounds ==
    /\ 0 <= scanner.start
    /\ scanner.start <= scanner.current
    /\ scanner.current <= Length

\* The cursor primitives alone took current from the start of a three-byte
\* file to its terminator.
C10_Witness ==
    /\ trace = <<>>
    /\ Length = 3
    /\ scanner.start = 0
    /\ scanner.current = Length

(***************************************************************************)
(* The order of the token spans.                                           *)
(***************************************************************************)

\* The i-th call returned a token that is not an error token.
NonError(i) == trace[i].tok.base = "source"

SpanStart(i) == trace[i].tok.start

SpanEnd(i) == trace[i].tok.start + trace[i].tok.length

\* The calls i < j returned non-error tokens and every call between them
\* returned an error token.
ConsecutiveNonError(i, j) ==
    /\ i < j
    /\ NonError(i)
    /\ NonError(j)
    /\ \A k \in (i + 1)..(j - 1) : ~NonError(k)

\* The offsets between the spans of the tokens of the calls i and j.
Between(i, j) == SpanEnd(i) .. (SpanStart(j) - 1)

SkippedOffsets == UNION {SkippedRegion(k) : k \in 1..Len(trace)}

ErrorOffsets == UNION {ErrorRegion(k) : k \in 1..Len(trace)}

\* Every non-error span lies in the buffer, and the spans come in the order of
\* the calls without overlapping.
SpansInOrder ==
    /\ \A i \in 1..Len(trace) :
           NonError(i) => /\ 0 <= SpanStart(i)
                          /\ SpanStart(i) <= SpanEnd(i)
                          /\ SpanEnd(i) <= Length
    /\ \A i, j \in 1..Len(trace) :
           (i < j /\ NonError(i) /\ NonError(j)) =>
               /\ SpanStart(i) <= SpanStart(j)
               /\ SpanEnd(i) <= SpanStart(j)

\* C11 as stated: every non-error span has start <= end <= buffer length, the
\* non-error spans of successive calls are non-decreasing and do not overlap,
\* and the bytes between two consecutive non-error spans are all bytes the
\* skipper skipped.
C11_SpansOrderedGapsSkipped ==
    /\ SpansInOrder
    /\ \A i, j \in 1..Len(trace) :
           ConsecutiveNonError(i, j) => Between(i, j) \subseteq SkippedOffsets

\* C11 amended: every non-error span has start <= end <= buffer length, the
\* non-error spans of successive calls are non-decreasing and do not overlap,
\* and the bytes between two consecutive non-error spans are all bytes the
\* skipper skipped or bytes consumed by a call that returned an error token.
C11_SpansOrderedGapsSkippedOrError ==
    /\ SpansInOrder
    /\ \A i, j \in 1..Len(trace) :
           ConsecutiveNonError(i, j) =>
               Between(i, j) \subseteq (SkippedOffsets \cup ErrorOffsets)

\* Two non-empty tokens were returned with a skipped byte and a byte consumed
\* by an error call between their spans.
C11_Witness ==
    \E i, j \in 1..Len(trace) :
        /\ ConsecutiveNonError(i, j)
        /\ SpanStart(i) < SpanEnd(i)
        /\ SpanStart(j) < SpanEnd(j)
        /\ Between(i, j) \cap SkippedOffsets # {}
        /\ Between(i, j) \cap ErrorOffsets # {}

(***************************************************************************)
(* The lines of the token sequence.                                        *)
(***************************************************************************)

\* C12: in the sequence of the tokens returned for one buffer, error tokens
\* and TOKEN_EOF included, the line of a token is never less than the line of
\* the token before it.
C12_LineMonotonic ==
    \A i \in 1..(Len(trace) - 1) : trace[i].tok.line <= trace[i + 1].tok.line

\* An error token was returned on a later line than the token before it, and
\* TOKEN_EOF after it.
C12_Witness ==
    \E i \in 1..(Len(trace) - 2) :
        /\ NonError(i)
        /\ ~NonError(i + 1)
        /\ trace[i].tok.line < trace[i + 1].tok.line
        /\ Returned(i + 2, "TOKEN_EOF")

(***************************************************************************)
(* Number literals: files of digits, dots, a letter, a plus and blanks.    *)
(***************************************************************************)

\* Longest file of the specification of the number literals.
MaxNumLen == 4

NumAlphabet ==
    {Ord[c] : c \in {"3", "1", ".", "f", "+", " "}}

\* The two files of the number literal examples.
DotFooFile == Bytes(<<"3", ".", "f", "o", "o">>)

SumFile == Bytes(<<"3", ".", "1", "4", " ", "+", " ", "2">>)

NumFiles == Texts(NumAlphabet, MaxNumLen) \cup {DotFooFile, SumFile}

NumInit == InitOn(NumFiles)

NumSpec == NumInit /\ [][Next]_vars

Digits == Ord["0"] .. Ord["9"]

\* The offset of the first byte at or after off that is not a decimal digit.
RECURSIVE DigitRunEnd(_)
DigitRunEnd(off) ==
    IF ByteAt(off) \in Digits THEN DigitRunEnd(off + 1) ELSE off

\* The i-th call returned the non-error token kind with the span [from, to) and
\* left the cursor at to.
ReturnedSpan(i, kind, from, to) ==
    /\ Returned(i, kind)
    /\ NonError(i)
    /\ SpanStart(i) = from
    /\ SpanEnd(i) = to
    /\ trace[i].after.current = to

\* The kinds of the tokens returned so far, in order.
Kinds == [i \in 1..Len(trace) |-> trace[i].tok.token]

\* C13: a call of scanToken whose token starts with a digit consumes the
\* maximal digit run; if the byte after the run is '.' and the byte after that
\* a digit, it consumes the '.' and the maximal digit run after it and returns
\* TOKEN_FLOAT_LITERAL; otherwise it returns TOKEN_INT_LITERAL for the first
\* run alone and a '.' after it starts the next token.  The file 3.foo gives
\* Int(3), Dot, Identifier(foo) and 3.14 + 2 gives Float(3.14), Plus, Int(2),
\* Eof.
C13_NumberLiterals ==
    /\ \A i \in 1..Len(trace) :
           ByteAt(trace[i].skipEnd) \in Digits =>
               LET st == trace[i].skipEnd
                   d1 == DigitRunEnd(st)
               IN  IF ByteAt(d1) = Ord["."] /\ ByteAt(d1 + 1) \in Digits
                       THEN ReturnedSpan(i, "TOKEN_FLOAT_LITERAL", st, DigitRunEnd(d1 + 1))
                       ELSE /\ ReturnedSpan(i, "TOKEN_INT_LITERAL", st, d1)
                            /\ (ByteAt(d1) = Ord["."] /\ i < Len(trace)) =>
                                   /\ trace[i + 1].tok.token \in {"TOKEN_DOT", "TOKEN_DOT_DOT"}
                                   /\ SpanStart(i + 1) = d1
    /\ (source = readFile(DotFooFile) /\ Len(trace) >= 3) =>
           /\ SubSeq(Kinds, 1, 3) = <<"TOKEN_INT_LITERAL", "TOKEN_DOT", "TOKEN_IDENTIFIER">>
           /\ Lexeme(1) = Bytes(<<"3">>)
           /\ Lexeme(3) = Bytes(<<"f", "o", "o">>)
    /\ (source = readFile(SumFile) /\ Len(trace) >= 4) =>
           /\ SubSeq(Kinds, 1, 4) =
                  <<"TOKEN_FLOAT_LITERAL", "TOKEN_PLUS", "TOKEN_INT_LITERAL", "TOKEN_EOF">>
           /\ Lexeme(1) = Bytes(<<"3", ".", "1", "4">>)
           /\ Lexeme(3) = Bytes(<<"2">>)

\* The file 3.foo was scanned to its identifier: the '.' after 3 was left for
\* the second call.
C13_Witness ==
    /\ source = readFile(DotFooFile)
    /\ Len(trace) = 3
    /\ Returned(1, "TOKEN_INT_LITERAL")
    /\ Returned(2, "TOKEN_DOT")

(***************************************************************************)
(* String literals, and the interpreter's lexer.c.                         *)
(***************************************************************************)

\* Longest file of the specification of the string literals.
MaxStrLen == 5

\* The quote, the backslash, a line break, an escape character and a byte that
\* is not one.
StrAlphabet ==
    {Ord[c] : c \in {"\"", "\\", "\n", "n", "a"}}

StrFiles == Texts(StrAlphabet, MaxStrLen)

StrInit == InitOn(StrFiles)

StrSpec == StrInit /\ [][Next]_vars

\* Longest file of punctuation bytes.
MaxPunctLen == 2

\* The bytes of the one-character tokens, a blank, and two bytes no token
\* starts with.
PunctAlphabet ==
    {Ord[c] : c \in {"(", ")", "{", "}", "[", "]", ",", ":", ";", "?", "^", "~",
                      " ", "@", "$"}}

PunctFiles == Texts(PunctAlphabet, MaxPunctLen)

\* A client of the interpreter's lexer.h has handed a buffer to initScanner.
InterpInit == InitFor("interpreter", StrFiles \cup PunctFiles)

InterpSpec == InterpInit /\ [][Next]_vars

\* What the bytes from off on, after the opening quote of a string literal,
\* amount to: the message of the error, or "closed" with the offset of the
\* closing quote.
RECURSIVE StringOutcome(_)
StringOutcome(off) ==
    IF off = Length
        THEN [outcome |-> "Unterminated string", at |-> off]
    ELSE IF ByteAt(off) = Ord["\""]
        THEN [outcome |-> "closed", at |-> off]
    ELSE IF ByteAt(off) = Ord["\\"]
        THEN IF off + 1 = Length
                 THEN [outcome |-> "Unterminated string after escape.", at |-> off + 1]
             ELSE IF ByteAt(off + 1) \in EscapeSet
                 THEN StringOutcome(off + 2)
             ELSE [outcome |-> "Invalid escape sequence.", at |-> off + 1]
    ELSE StringOutcome(off + 1)

\* The i-th call's token starts with a double quote.
StartsString(i) == ByteAt(trace[i].skipEnd) = Ord["\""]

\* C14: in a string literal a backslash followed by a byte outside the escape
\* set gives the error 'Invalid escape sequence.', a backslash followed by the
\* end of input gives 'Unterminated string after escape.', and the end of input
\* without a closing quote gives 'Unterminated string'; the call returns an
\* error token with exactly that message and no string literal token.
C14_StringErrors ==
    \A i \in 1..Len(trace) :
        (StartsString(i) /\ StringOutcome(trace[i].skipEnd + 1).outcome # "closed") =>
            /\ Returned(i, "TOKEN_ERROR")
            /\ trace[i].tok.base = StringOutcome(trace[i].skipEnd + 1).outcome

(***************************************************************************)
(* Character literals.                                                     *)
(***************************************************************************)

\* The i-th call's token starts with a single quote.
StartsChar(i) == ByteAt(trace[i].skipEnd) = Ord["'"]

\* The offset after the one character of a character literal whose opening
\* quote is at st: after the two bytes of an escape, or after the one raw byte;
\* with rawAlways a raw byte is counted even where the input ends after the
\* opening quote.
CharBodyEnd(st, rawAlways) ==
    IF ByteAt(st + 1) = Ord["\\"] THEN st + 3
    ELSE IF rawAlways \/ st + 1 < Length THEN st + 2
    ELSE st + 1

\* The byte at off, if there is one, is a single quote.
QuoteAt(off) == off <= Length /\ ByteAt(off) = Ord["'"]

\* The i-th call returned the error message and stopped at the offset to.
ReturnedError(i, message, to) ==
    /\ Returned(i, "TOKEN_ERROR")
    /\ trace[i].tok.base = message
    /\ trace[i].after.current = to

\* The outcomes of the calls whose token starts with a single quote.
CharOutcomes(rawAlways) ==
    \A i \in 1..Len(trace) :
        StartsChar(i) =>
            LET st == trace[i].skipEnd
                e  == CharBodyEnd(st, rawAlways)
            IN  IF ByteAt(st + 1) = Ord["'"]
                    THEN /\ Returned(i, "TOKEN_ERROR")
                         /\ trace[i].tok.base = "Empty character literal."
                ELSE IF ByteAt(st + 1) = Ord["\\"] /\ ByteAt(st + 2) \notin EscapeSet
                    THEN /\ Returned(i, "TOKEN_ERROR")
                         /\ trace[i].tok.base = "Invalid escape sequence in character literal."
                ELSE IF QuoteAt(e)
                    THEN ReturnedSpan(i, "TOKEN_CHAR_LITERAL", st, e + 1)
                ELSE ReturnedError(i, "Character literal must contain exactly one character.", e)

\* C15 as stated: after the opening quote a quote gives 'Empty character
\* literal.', a backslash followed by a byte outside the escape set gives
\* 'Invalid escape sequence in character literal.'; otherwise exactly one raw
\* byte or one two-byte escape is consumed, and then a byte that is not a quote
\* gives 'Character literal must contain exactly one character.' while a quote
\* is consumed and TOKEN_CHAR_LITERAL returned, its span the opening quote, the
\* character and the closing quote.
C15_CharOutcomes == CharOutcomes(TRUE)

\* C15 amended: as C15, except that no raw byte is consumed where the opening
\* quote is the last byte of the input.
C15_CharOutcomesAtEnd == CharOutcomes(FALSE)

\* A character literal was returned, and an opening quote at the end of the
\* input was reported.
C15_Witness ==
    /\ \E i \in 1..Len(trace) :
           /\ Returned(i, "TOKEN_CHAR_LITERAL")
           /\ trace[i].tok.length = 3
    /\ \E i \in 1..Len(trace) :
           /\ StartsChar(i)
           /\ trace[i].skipEnd + 1 = Length
           /\ Returned(i, "TOKEN_ERROR")

(***************************************************************************)
(* String literals that close.                                             *)
(***************************************************************************)

\* The number of line breaks at the offsets from .. to - 1.
NewlinesIn(from, to) == NewlinesBefore(to) - NewlinesBefore(from)

\* C16: a call returns TOKEN_STRING_LITERAL only for a token that starts at a
\* double quote and whose first quote after it that no backslash escapes was
\* found; the span runs from the opening quote to just after that closing
\* quote, which is consumed; the line breaks inside the literal are each added
\* to line; and where the literal holds one line break and no other line break
\* is consumed around it, the token after the literal is one line later than
\* the token before it.
C16_StringLiteral ==
    \A i \in 1..Len(trace) :
        Returned(i, "TOKEN_STRING_LITERAL") =>
            LET st == trace[i].skipEnd
                closing == StringOutcome(st + 1)
            IN  /\ StartsString(i)
                /\ closing.outcome = "closed"
                /\ ReturnedSpan(i, "TOKEN_STRING_LITERAL", st, closing.at + 1)
                /\ trace[i].after.line =
                       trace[i].before.line
                       + NewlinesIn(trace[i].before.current, trace[i].after.current)
                /\ ( /\ 1 < i
                     /\ i < Len(trace)
                     /\ NewlinesIn(st, closing.at + 1) = 1
                     /\ NewlinesIn(trace[i - 1].after.current,
                                   trace[i + 1].after.current) = 1 )
                   => trace[i + 1].tok.line = trace[i - 1].tok.line + 1

\* A string literal holding one line break was returned between two
\* identifiers.
C16_Witness ==
    /\ Len(trace) >= 3
    /\ Returned(1, "TOKEN_IDENTIFIER")
    /\ Returned(2, "TOKEN_STRING_LITERAL")
    /\ NewlinesIn(SpanStart(2), SpanEnd(2)) = 1
    /\ Returned(3, "TOKEN_IDENTIFIER")
    /\ trace[3].tok.line = 2

(***************************************************************************)
(* The one-character tokens and the unexpected bytes.                      *)
(***************************************************************************)

\* The token each structural punctuation byte and each of ^ and ~ stands for.
PunctuationKind ==
    Ord["("] :> "TOKEN_LEFT_PAREN" @@ Ord[")"] :> "TOKEN_RIGHT_PAREN" @@
    Ord["{"] :> "TOKEN_LEFT_BRACE" @@ Ord["}"] :> "TOKEN_RIGHT_BRACE" @@
    Ord["["] :> "TOKEN_LEFT_BRACKET" @@ Ord["]"] :> "TOKEN_RIGHT_BRACKET" @@
    Ord[","] :> "TOKEN_COMMA" @@ Ord[":"] :> "TOKEN_COLON" @@
    Ord[";"] :> "TOKEN_SEMICOLON" @@ Ord["?"] :> "TOKEN_QUESTION" @@
    Ord["^"] :> "TOKEN_BIT_XOR" @@ Ord["~"] :> "TOKEN_BIT_NOT"

\* The bytes a token can start with: operators and punctuation, the quotes,
\* digits, letters and the underscore.
TokenStartBytes ==
    DOMAIN PunctuationKind
    \cup {Ord[c] : c \in {".", "+", "*", "/", "%", "-", "=", "!", "<", ">", "&", "|"}}
    \cup {Ord["'"], Ord["\""], Ord["_"]}
    \cup Digits \cup (Ord["a"] .. Ord["z"]) \cup (Ord["A"] .. Ord["Z"])

\* C17: a token that starts with one of ( ) { } [ ] , : ; ? ^ ~ is the
\* one-character non-error token of that byte, and a byte no token starts with
\* gives the error 'Unexpected character.' with that byte consumed.
C17_SingleByteTokens ==
    \A i \in 1..Len(trace) :
        LET st == trace[i].skipEnd
            c  == ByteAt(st)
        IN  /\ c \in DOMAIN PunctuationKind =>
                   ReturnedSpan(i, PunctuationKind[c], st, st + 1)
            /\ (st < Length /\ c \notin TokenStartBytes) =>
                   ReturnedError(i, "Unexpected character.", st + 1)

(***************************************************************************)
(* A client that lexes two buffers in two sessions, its calls interleaved. *)
(* The two buffers lie one after the other in source, each with its own    *)
(* terminator; a session's buffer is the offset of its first byte.  There  *)
(* is one scanner: the global that initScanner and scanToken work on.      *)
(***************************************************************************)

\* Longest buffer of a session.
MaxSessLen == 2

\* Most calls of scanToken made for one session.
MaxSessCalls == 3

SessAlphabet ==
    {Ord[c] : c \in {"a", "1", " "}}

SessFiles == Texts(SessAlphabet, MaxSessLen)

SessInit ==
    /\ \E t1, t2 \in SessFiles :
           /\ source = readFile(t1) \o readFile(t2)
           /\ sessions = <<[buffer |-> 0, started |-> FALSE, tokens |-> <<>>],
                           [buffer |-> Len(t1) + 1, started |-> FALSE, tokens |-> <<>>]>>
    /\ scanner = [start |-> 0, current |-> 0, line |-> 0]
    /\ pc = "loop"
    /\ trace = <<>>
    /\ build = "shared"
    /\ last = NoCall
    /\ freed = FALSE

\* initScanner(buffer) for the session k.
SessionInitScanner(k) ==
    /\ ~sessions[k].started
    /\ scanner' = initScannerAt(sessions[k].buffer)
    /\ sessions' = [sessions EXCEPT ![k].started = TRUE]
    /\ UNCHANGED <<source, pc, trace, build, last, freed>>

\* scanToken() for the next token of the session k.
SessionScanToken(k) ==
    /\ sessions[k].started
    /\ Len(sessions[k].tokens) < MaxSessCalls
    /\ LET r == scanToken(scanner)
       IN  /\ scanner' = r.s
           /\ sessions' = [sessions EXCEPT ![k].tokens = Append(@, r.tok)]
    /\ UNCHANGED <<source, pc, trace, build, last, freed>>

SessNext ==
    \E k \in 1..2 : SessionInitScanner(k) \/ SessionScanToken(k)

SessSpec == SessInit /\ [][SessNext]_vars

\* The n-th token of lexing alone from the scanner s on.
RECURSIVE SoloToken(_, _)
SoloToken(s, n) ==
    IF n = 1 THEN scanToken(s).tok ELSE SoloToken(scanToken(s).s, n - 1)

\* C18: with the calls of scanToken for two buffers interleaved, each buffer
\* having been given to initScanner, the tokens returned for a buffer are the
\* tokens that lexing that buffer alone returns.
C18_SessionsIndependent ==
    \A k \in 1..Len(sessions) :
        \A n \in 1..Len(sessions[k].tokens) :
            sessions[k].tokens[n] = SoloToken(initScannerAt(sessions[k].buffer), n)

(***************************************************************************)
(* The skipper: files of whitespace, slashes, a star and a letter, with    *)
(* skipWhitespace called by scanToken and by the client.                   *)
(***************************************************************************)

\* Longest file of the specification of the skipper.
MaxSkipLen == 4

SkipAlphabet ==
    {Ord[c] : c \in {" ", "\t", "\r", "\n", "/", "*", "a"}}

\* The file of the comment example.
CommentFnFile ==
    Bytes(<<"/", "/", " ", "h", "e", "l", "l", "o", "\n", "f", "n">>)

SkipFiles == Texts(SkipAlphabet, MaxSkipLen) \cup {CommentFnFile}

SkipInit == InitOn(SkipFiles)

\* skipWhitespace() called by the client, the call recorded.
SkipWhitespaceObserved ==
    /\ scanner' = skipWhitespace(scanner)
    /\ last' = [op |-> "skipWhitespace", before |-> scanner,
                after |-> skipWhitespace(scanner)]
    /\ UNCHANGED <<source, pc, trace, build, sessions, freed>>

SkipNext == SkipWhitespaceObserved \/ ScanTokenCall

SkipSpec == SkipInit /\ [][SkipNext]_vars

Whitespace == {Ord[" "], Ord["\t"], Ord["\r"], Ord["\n"]}

\* Two slashes start at the offset off.
CommentAt(off) == ByteAt(off) = Ord["/"] /\ ByteAt(off + 1) = Ord["/"]

\* The offset of the first line break at or after off, or of the terminator.
RECURSIVE LineEnd(_)
LineEnd(off) ==
    IF off = Length \/ ByteAt(off) = Ord["\n"] THEN off ELSE LineEnd(off + 1)

\* A skipper that started at from was right to stop at stop: every byte it
\* consumed is whitespace or lies in a comment that started at or after from,
\* every comment was consumed to the end of its line, and the byte at stop is
\* neither whitespace nor the first slash of a comment.
SkippedRight(from, stop) ==
    /\ from <= stop
    /\ stop <= Length
    /\ \A off \in from..(stop - 1) :
           \/ ByteAt(off) \in Whitespace
           \/ /\ \E j \in from..off : CommentAt(j) /\ LineEnd(j) > off
              /\ LineEnd(off) <= stop
    /\ ByteAt(stop) \notin Whitespace
    /\ ~(stop < Length /\ CommentAt(stop))

\* C19: skipWhitespace consumes only whitespace bytes and comments, each
\* comment up to the next line break or the end of input, and stops at the
\* first other byte, a slash that no slash follows included; it adds one to
\* line for each line break it consumes and leaves start alone; the file /*
\* gives Slash, Star, and the file // hello, line break, fn gives the keyword
\* fn on line 2.
C19_Skipper ==
    /\ last.op = "skipWhitespace" =>
           /\ SkippedRight(last.before.current, last.after.current)
           /\ last.after.line = last.before.line
                                 + NewlinesIn(last.before.current, last.after.current)
           /\ last.after.start = last.before.start
    /\ \A i \in 1..Len(trace) :
           /\ SkippedRight(trace[i].before.current, trace[i].skipEnd)
           /\ (ByteAt(trace[i].skipEnd) = Ord["/"] /\ ByteAt(trace[i].skipEnd + 1) = Ord["*"]) =>
                  /\ ReturnedSpan(i, "TOKEN_SLASH", trace[i].skipEnd, trace[i].skipEnd + 1)
                  /\ i < Len(trace) => /\ Returned(i + 1, "TOKEN_STAR")
                                        /\ SpanStart(i + 1) = trace[i].skipEnd + 1
    /\ (source = readFile(CommentFnFile) /\ Len(trace) >= 1) =>
           /\ Returned(1, "TOKEN_FN")
           /\ trace[1].tok.line = 2
           /\ Lexeme(1) = Bytes(<<"f", "n">>)

\* The client's skipWhitespace consumed a comment and the line break after it,
\* and stopped at a slash that a star follows.
C19_Witness ==
    /\ last.op = "skipWhitespace"
    /\ last.before.current = 0
    /\ CommentAt(0)
    /\ last.after.line = 2
    /\ ByteAt(last.after.current) = Ord["/"]
    /\ \E i \in 1..Len(trace) : Returned(i, "TOKEN_SLASH")

(***************************************************************************)
(* The cursor primitives called by a client, each call recorded with its   *)
(* argument, its return value and the scanner before and after it.         *)
(***************************************************************************)

\* Longest file of the specification of the cursor primitives.
MaxPrimLen == 3

PrimAlphabet ==
    {Ord[c] : c \in {"a", "=", " ", "\n"}}

PrimInit == InitOn(Texts(PrimAlphabet, MaxPrimLen))

\* The record of a call that took arg, returned ret and left the scanner after.
Call(name, arg, ret, after) ==
    [op |-> name, arg |-> arg, ret |-> ret, before |-> scanner, after |-> after]

\* What a recorded call does to the state.
Observed(call) ==
    /\ scanner' = call.after
    /\ last' = call
    /\ UNCHANGED <<source, pc, trace, build, sessions, freed>>

AdvanceObserved ==
    Observed(Call("advance", NUL, advanceByte(scanner), advance(scanner)))

MatchObserved ==
    \E expected \in PrimAlphabet \cup {NUL} :
        Observed(Call("match", expected, match(scanner, expected).ok,
                      match(scanner, expected).s))

\* peek, peekNext and isAtEnd read the scanner and assign nothing.
PeekObserved ==
    Observed(Call("peek", NUL, peek(scanner), scanner))

PeekNextObserved ==
    Observed(Call("peekNext", NUL, peekNext(scanner), scanner))

IsAtEndObserved ==
    Observed(Call("isAtEnd", NUL, isAtEnd(scanner), scanner))

PrimNext ==
    \/ AdvanceObserved
    \/ MatchObserved
    \/ PeekObserved
    \/ PeekNextObserved
    \/ IsAtEndObserved
    \/ ScanTokenCall

PrimSpec == PrimInit /\ [][PrimNext]_vars

\* The scanner s with current moved on by one byte.
Moved(s) == [s EXCEPT !.current = @ + 1]

\* C20: match(expected) returns true, having moved current on by exactly one,
\* if and only if the current byte is not the terminator and is expected;
\* otherwise it returns false and leaves start, current and line as they were.
\* advance() at the terminator returns the NUL sentinel and leaves the scanner
\* as it was, and elsewhere returns the current byte and moves current on by
\* one.  peek, peekNext and isAtEnd leave every field of the scanner as it was.
C20_PrimitiveFrames ==
    LET b   == last.before
        hit == ByteAt(b.current) # NUL /\ ByteAt(b.current) = last.arg
    IN  /\ last.op = "match" =>
               /\ last.ret = hit
               /\ last.after = (IF hit THEN Moved(b) ELSE b)
        /\ last.op = "advance" =>
               IF ByteAt(b.current) = NUL
                   THEN last.ret = NUL /\ last.after = b
                   ELSE last.ret = ByteAt(b.current) /\ last.after = Moved(b)
        /\ last.op \in {"peek", "peekNext", "isAtEnd"} => last.after = b

\* After a token was scanned, match was called on a byte that is neither the
\* terminator nor the expected byte.
C20_Witness ==
    /\ last.op = "match"
    /\ last.before.start > 0
    /\ ByteAt(last.before.current) # NUL
    /\ ~last.ret

(***************************************************************************)
(* Lookahead: the buffer followed in memory by one byte that is not part   *)
(* of it, under either build of lexer.c.  What that byte holds is not      *)
(* defined: it is any of BeyondBytes.                                      *)
(***************************************************************************)

\* Longest file of the specification of the lookahead.
MaxLookLen == 2

LookAlphabet ==
    {Ord[c] : c \in {"a", "1", ".", "/"}}

BeyondBytes == {NUL, Ord["/"], Ord["1"]}

LookInit ==
    /\ \E text \in Texts(LookAlphabet, MaxLookLen), beyond \in BeyondBytes :
           source = readFile(text) \o <<beyond>>
    /\ scanner = initScanner
    /\ pc = "loop"
    /\ trace = <<>>
    /\ build \in {"shared", "interpreter"}
    /\ sessions = <<>>
    /\ last = NoCall
    /\ freed = FALSE

LookNext ==
    \/ PeekNextObserved
    \/ AdvanceObserved
    \/ ScanTokenCall

LookSpec == LookInit /\ [][LookNext]_vars

\* C21: peekNext returns the NUL sentinel when current is at the terminator,
\* where no byte after the current one is available, and reads no offset
\* greater than the terminator's in whatever state it is called; scanToken
\* never takes the cursor, which it reads at, past the terminator.
C21_BoundedLookahead ==
    /\ last.op = "peekNext" =>
           /\ \A off \in peekNextReads(last.before) : off <= Length
           /\ last.before.current = Length => last.ret = NUL
    /\ \A i \in 1..Len(trace) :
           /\ trace[i].skipEnd <= Length
           /\ trace[i].after.current <= Length

(***************************************************************************)
(* main of the interpreter's lexer.c: runFile reads the file, initialises  *)
(* the scanner on the buffer and frees the buffer before it returns; main  *)
(* then returns.  scanToken is exported by lexer.h, so a caller of runFile *)
(* can ask for tokens once runFile has returned.  What freed memory holds  *)
(* is not defined: the allocator may hand it out again at any time.        *)
(***************************************************************************)

InterpMainInit ==
    /\ source = <<>>
    /\ scanner = [start |-> 0, current |-> 0, line |-> 0]
    /\ pc = "runFile"
    /\ trace = <<>>
    /\ build = "interpreter"
    /\ sessions = <<>>
    /\ last = NoCall
    /\ freed = FALSE

\* readFile fails and calls exit(74).
InterpReadFileExits ==
    /\ pc = "runFile"
    /\ pc' = "exited"
    /\ UNCHANGED <<source, scanner, trace, build, sessions, last, freed>>

\* runFile(argv[1]): readFile, initScanner(source), free(source).
InterpRunFile ==
    /\ pc = "runFile"
    /\ \E text \in SessFiles : source' = readFile(text)
    /\ scanner' = initScanner
    /\ freed' = TRUE
    /\ pc' = "returned"
    /\ UNCHANGED <<trace, build, sessions, last>>

\* The freed bytes are overwritten; the terminator is taken to stay where it
\* was, so that a scan of the memory ends inside it.
FreedMemoryReused ==
    /\ freed
    /\ pc = "returned"
    /\ \E text \in SessFiles :
           /\ Len(text) = Length
           /\ source' = readFile(text)
    /\ UNCHANGED <<scanner, pc, trace, build, sessions, last, freed>>

\* scanToken() called after runFile has returned.
InterpScanToken ==
    /\ pc = "returned"
    /\ EofCount <= MaxEofCalls
    /\ ScanTokenEffect(scanToken(scanner))
    /\ UNCHANGED pc

\* return 0;
InterpMainReturns ==
    /\ pc = "returned"
    /\ pc' = "done"
    /\ UNCHANGED <<source, scanner, trace, build, sessions, last, freed>>

InterpMainNext ==
    \/ InterpReadFileExits
    \/ InterpRunFile
    \/ FreedMemoryReused
    \/ InterpScanToken
    \/ InterpMainReturns

InterpMainSpec == InterpMainInit /\ [][InterpMainNext]_vars

\* C22: while the scanner has been initialised on a buffer and scanToken can
\* still be called, main neither returned nor exited, the buffer has not been
\* freed; so after runFile has returned start and current do not point into
\* freed memory.
C22_BufferOutlivesScanner ==
    (scanner.line >= 1 /\ pc \in {"loop", "returned"}) => ~freed

(***************************************************************************)
(* Identifiers: files of letters, a digit, the underscore, a blank and a   *)
(* semicolon.                                                              *)
(***************************************************************************)

\* Longest file of the specification of the identifiers.
MaxIdLen == 4

IdAlphabet ==
    {Ord[c] : c \in {"d", "o", "1", "_", " ", ";"}}

\* The file of the example of a digit run followed by letters.
TenAbcFile == Bytes(<<"1", "0", "a", "b", "c">>)

IdFiles == Texts(IdAlphabet, MaxIdLen) \cup {TenAbcFile}

IdInit == InitOn(IdFiles)

IdSpec == IdInit /\ [][Next]_vars

\* The bytes of a word: letters, digits and the underscore.
WordStartBytes == (Ord["a"] .. Ord["z"]) \cup (Ord["A"] .. Ord["Z"]) \cup {Ord["_"]}

WordBytes == WordStartBytes \cup Digits

\* The kinds of the identifier and keyword tokens.
WordKinds == {"TOKEN_IDENTIFIER"} \cup {e[2] : e \in KeywordTable}

\* C23: the lexeme of every identifier or keyword token starts with a letter
\* or underscore, holds only letters, digits and underscores, and the byte
\* after its span is none of these; a number literal directly followed by a
\* letter is followed by an identifier or keyword token that starts there,
\* and the file 10abc gives Int(10), Identifier(abc).
C23_IdentifierMaximal ==
    /\ \A i \in 1..Len(trace) :
           (NonError(i) /\ trace[i].tok.token \in WordKinds) =>
               /\ SpanStart(i) < SpanEnd(i)
               /\ ByteAt(SpanStart(i)) \in WordStartBytes
               /\ \A off \in SpanStart(i)..(SpanEnd(i) - 1) : ByteAt(off) \in WordBytes
               /\ ByteAt(SpanEnd(i)) \notin WordBytes
               /\ trace[i].after.current = SpanEnd(i)
    /\ \A i \in 1..(Len(trace) - 1) :
           ( /\ trace[i].tok.token \in {"TOKEN_INT_LITERAL", "TOKEN_FLOAT_LITERAL"}
             /\ ByteAt(SpanEnd(i)) \in WordStartBytes ) =>
               /\ NonError(i + 1)
               /\ trace[i + 1].tok.token \in WordKinds
               /\ SpanStart(i + 1) = SpanEnd(i)
    /\ (source = readFile(TenAbcFile) /\ Len(trace) >= 2) =>
           /\ SubSeq(Kinds, 1, 2) = <<"TOKEN_INT_LITERAL", "TOKEN_IDENTIFIER">>
           /\ Lexeme(1) = Bytes(<<"1", "0">>)
           /\ Lexeme(2) = Bytes(<<"a", "b", "c">>)

\* An identifier holding a digit was returned, a semicolon after it, and the
\* next call returned the semicolon.
C23_Witness ==
    \E i \in 1..(Len(trace) - 1) :
        /\ Returned(i, "TOKEN_IDENTIFIER")
        /\ \E off \in SpanStart(i)..(SpanEnd(i) - 1) : ByteAt(off) \in Digits
        /\ ByteAt(SpanEnd(i)) = Ord[";"]
        /\ Returned(i + 1, "TOKEN_SEMICOLON")

(***************************************************************************)
(* The shape of every token, by kind.                                      *)
(***************************************************************************)

\* The token of call i describes a region of the buffer.
SourceToken(i) == ~Returned(i, "TOKEN_ERROR") /\ ~Returned(i, "TOKEN_EOF")

\* C24: a token other than TOKEN_ERROR and TOKEN_EOF points into the buffer, is
\* at least one byte long and starts at a byte that is neither whitespace nor
\* the start of a comment; TOKEN_EOF points at the terminator and is empty; a
\* TOKEN_ERROR points at its message, with the length of the message and not of
\* any source region, and has the line the scanner was on when the call failed.
C24_TokenShapes ==
    \A i \in 1..Len(trace) :
        LET tok == trace[i].tok IN
        /\ SourceToken(i) =>
               /\ tok.base = "source"
               /\ tok.length >= 1
               /\ tok.start < Length
               /\ ByteAt(tok.start) \notin Whitespace
               /\ ~CommentAt(tok.start)
        /\ Returned(i, "TOKEN_EOF") =>
               /\ tok.base = "source"
               /\ tok.length = 0
               /\ tok.start = Length
        /\ Returned(i, "TOKEN_ERROR") =>
               /\ tok.base # "source"
               /\ tok.start = 0
               /\ tok.length = Len(tok.base)
               /\ tok.length # trace[i].after.current - trace[i].after.start
               /\ tok.line = trace[i].after.line

\* Whitespace with a line break was skipped before a token, an error was
\* returned on the second line after a token, and TOKEN_EOF ended the file.
C24_Witness ==
    \E i, j, k \in 1..Len(trace) :
        /\ i < j /\ j < k
        /\ SourceToken(i)
        /\ trace[i].before.current < SpanStart(i)
        /\ Returned(j, "TOKEN_ERROR")
        /\ trace[j].tok.line = 2
        /\ Returned(k, "TOKEN_EOF")

(***************************************************************************)
(* Two buffers that start with the same bytes and go on differently, each  *)
(* scanned from its first byte.                                            *)
(***************************************************************************)

\* Longest lexeme of which every spelling over KwAlphabet starts the buffers.
MaxPairLen == 1

\* The common first bytes of the two buffers: the reserved words, their
\* prefixes, words that run on past a reserved word and every short spelling.
PairWords ==
    {l \in UNION {{SubSeq(Bytes(w), 1, k) : k \in 1..Len(w)} : w \in ReservedWords}
            \cup LongerWords \cup Texts(KwAlphabet, MaxPairLen) :
        Len(l) > 0 /\ isAlpha(l[1])}

\* What follows the common bytes in a buffer: nothing, bytes that end the
\* lexeme, and bytes that are the second byte of a reserved word.
PairTails ==
    {<<>>, <<Ord[";"]>>, <<Ord[" "], Ord["o"]>>, <<Ord["("], Ord["r"]>>,
     <<Ord["o"]>>, <<Ord["r"], Ord[";"]>>}

PairInit ==
    /\ \E l \in PairWords : \E t1, t2 \in PairTails :
           /\ source = readFile(l \o t1) \o readFile(l \o t2)
           /\ sessions = <<[buffer |-> 0, started |-> FALSE, tokens |-> <<>>],
                           [buffer |-> Len(l) + Len(t1) + 1, started |-> FALSE,
                            tokens |-> <<>>]>>
    /\ scanner = [start |-> 0, current |-> 0, line |-> 0]
    /\ pc = "loop"
    /\ trace = <<>>
    /\ build \in {"shared", "interpreter"}
    /\ last = NoCall
    /\ freed = FALSE

\* initScanner(buffer) and the first scanToken() for the buffer k.
PairScanFirst(k) ==
    /\ sessions[k].tokens = <<>>
    /\ LET r == scanToken(initScannerAt(sessions[k].buffer))
       IN  /\ scanner' = r.s
           /\ sessions' = [sessions EXCEPT ![k].started = TRUE,
                                           ![k].tokens = <<r.tok>>]
    /\ UNCHANGED <<source, pc, trace, build, last, freed>>

PairNext ==
    \E k \in 1..2 : PairScanFirst(k)

PairSpec == PairInit /\ [][PairNext]_vars

\* The first token of the buffer k has been returned.
Classified(k) == sessions[k].tokens # <<>>

\* The bytes the first token of the buffer k spans.
LexemeOf(k) ==
    LET tok == sessions[k].tokens[1]
    IN  SubSeq(source, tok.start + 1, tok.start + tok.length)

\* The byte after the first token of the buffer k.
ByteAfter(k) ==
    LET tok == sessions[k].tokens[1]
    IN  ByteAt(tok.start + tok.length)

\* The first tokens of both buffers are the same identifier-shaped lexeme.
SameWord ==
    /\ Classified(1) /\ Classified(2)
    /\ sessions[1].tokens[1].token \in WordKinds
    /\ sessions[2].tokens[1].token \in WordKinds
    /\ LexemeOf(1) = LexemeOf(2)

\* C25: when two buffers hold the same identifier lexeme at the token start,
\* the token kinds returned for it are the same, whatever bytes follow the
\* lexeme in either buffer, in both builds.
C25_KindByLexemeOnly ==
    SameWord => sessions[1].tokens[1].token = sessions[2].tokens[1].token

\* In the interpreter build the one-letter lexeme b, whose resolver reads the
\* byte after it, was classified in two buffers that differ in that byte.
C25_Witness ==
    /\ build = "interpreter"
    /\ SameWord
    /\ LexemeOf(1) = <<Ord["b"]>>
    /\ ByteAfter(1) # ByteAfter(2)
    /\ sessions[2].tokens[1].token = "TOKEN_IDENTIFIER"

====
